---- MODULE Spec2Model ----
(***************************************************************************)
(* A model of sxprs (src/src/main.rs): the lexer tokens, the recursive   *)
(* descent parser parse/read_seq/parse_atom, the evaluator           *)
(* LispInfo::value with its builtin table, and the driver main.        *)
(*                                                                         *)
(* Text is a sequence of one-character strings.  A message (a ListError,   *)
(* a printed line) is a sequence of string pieces whose concatenation is   *)
(* the text the program builds with format!.                               *)
(***************************************************************************)
EXTENDS Integers, Sequences, FiniteSets, TLC

VARIABLES pc, content, toks, parsed, root, result, out, status, leaf

vars == <<pc, content, toks, parsed, root, result, out, status, leaf>>

\* ------------------------------------------------------------------ bounds
MaxSrc == 4
MaxToks == 5
MaxArgs == 2
MaxAtom == 3

\* The two quote characters the program messages and builtin names use.
\* A string literal of this notation cannot hold the grave accent, so a
\* piece that names it stands for that one character in the messages.
Apostrophe == "'"
Backtick == "<grave accent>"

\* --------------------------------------------------------------- LispExp
\* An f64: a finite value (the model holds integers only), an infinity with
\* its sign in n, or NaN.
Fin(n) == [k |-> "fin", n |-> n]
PosInf == [k |-> "inf", n |-> 1]
NegInf == [k |-> "inf", n |-> -1]
NaN == [k |-> "nan", n |-> 0]

F64Neg(a) == IF a.k = "nan" THEN a ELSE [a EXCEPT !.n = -a.n]

F64Add(a, b) ==
    IF a.k = "nan" \/ b.k = "nan" THEN NaN
    ELSE IF a.k = "inf" /\ b.k = "inf" THEN (IF a.n = b.n THEN a ELSE NaN)
    ELSE IF a.k = "inf" THEN a
    ELSE IF b.k = "inf" THEN b
    ELSE Fin(a.n + b.n)

F64Sub(a, b) == F64Add(a, F64Neg(b))

Symbol(s) == [tag |-> "Symbol", s |-> s, n |-> Fin(0), l |-> <<>>]
Number(n) == [tag |-> "Number", s |-> <<>>, n |-> n, l |-> <<>>]
List(l) == [tag |-> "List", s |-> <<>>, n |-> Fin(0), l |-> l]

name(e) == e.tag

\* Result<T, ListError>; v is read only when ok, err only when not.
Ok(v) == [ok |-> TRUE, v |-> v, err |-> <<>>]
Err(msg) == [ok |-> FALSE, v |-> <<>>, err |-> msg]

\* ------------------------------------------------------- number rendering
DigitChars == <<"0", "1", "2", "3", "4", "5", "6", "7", "8", "9">>

IsDigit(c) == \E i \in 1..10 : DigitChars[i] = c

DigitVal(c) == (CHOOSE i \in 1..10 : DigitChars[i] = c) - 1

RECURSIVE NatDigits(_)
NatDigits(n) ==
    IF n < 10 THEN <<DigitChars[n + 1]>>
    ELSE Append(NatDigits(n \div 10), DigitChars[(n % 10) + 1])

\* {} of an f64: an integer has no fraction part and a leading minus.
DisplayF64(a) ==
    IF a.k = "nan" THEN <<"N", "a", "N">>
    ELSE IF a.k = "inf" THEN (IF a.n < 0 THEN <<"-">> ELSE <<>>) \o <<"i", "n", "f">>
    ELSE IF a.n < 0 THEN <<"-">> \o NatDigits(-a.n)
    ELSE NatDigits(a.n)

\* {:?} of an f64: a finite value always shows a fraction part.
DebugF64(a) == IF a.k = "fin" THEN DisplayF64(a) \o <<".", "0">> ELSE DisplayF64(a)

\* {:?} of a String: quoted, with quote, backslash and newline escaped.
RECURSIVE EscapeDebug(_)
EscapeDebug(s) ==
    IF s = <<>> THEN <<>>
    ELSE LET c == Head(s)
             e == IF c = "\"" THEN <<"\\", "\"">>
                  ELSE IF c = "\\" THEN <<"\\", "\\">>
                  ELSE IF c = "\n" THEN <<"\\", "n">>
                  ELSE IF c = "\t" THEN <<"\\", "t">>
                  ELSE IF c = "\r" THEN <<"\\", "r">>
                  ELSE <<c>>
         IN e \o EscapeDebug(Tail(s))

DebugString(s) == <<"\"">> \o EscapeDebug(s) \o <<"\"">>

RECURSIVE Join(_, _)
Join(ss, sep) ==
    IF ss = <<>> THEN <<>>
    ELSE IF Len(ss) = 1 THEN ss[1]
    ELSE ss[1] \o sep \o Join(Tail(ss), sep)

\* impl Display for LispExp
RECURSIVE Display(_)
Display(e) ==
    IF e.tag = "Symbol" THEN <<"\"">> \o e.s \o <<"\"">>
    ELSE IF e.tag = "Number" THEN DisplayF64(e.n)
    ELSE LET cont == [i \in 1..Len(e.l) |-> Display(e.l[i])]
         IN <<"(", " ">> \o Join(cont, <<" ">>) \o <<" ", ")">>

\* #[derive(Debug)] for LispExp
RECURSIVE Debug(_)
Debug(e) ==
    IF e.tag = "Symbol" THEN <<"Symbol(">> \o DebugString(e.s) \o <<")">>
    ELSE IF e.tag = "Number" THEN <<"Number(">> \o DebugF64(e.n) \o <<")">>
    ELSE LET cont == [i \in 1..Len(e.l) |-> Debug(e.l[i])]
         IN <<"List([">> \o Join(cont, <<", ">>) \o <<"])">>

get_symbol(e) ==
    IF e.tag = "Symbol" THEN Ok(e.s)
    ELSE Err(<<Backtick>> \o Display(e) \o <<Backtick, "\n">> \o Debug(e)
             \o <<"\nis not a symbol, it", Apostrophe, "s a ", name(e)>>)

get_number(e) ==
    IF e.tag = "Number" THEN Ok(e.n)
    ELSE Err(Debug(e) \o <<" is not a number">>)

\* ----------------------------------------------------------------- lexer

\* char::is_whitespace on the characters a source text is drawn from.
WhiteSpace == {" ", "\n", "\t", "\r", "\f"}

is_whitespace(chr) == chr \in WhiteSpace

TokInit ==
    [ret |-> <<>>, buffer |-> <<>>, parser |-> "OnSymbol",
     on_special |-> FALSE, failed |-> FALSE, err |-> <<>>]

\* One iteration of the for chr in content.chars() loop body.
TokStep(st, chr) ==
    IF st.parser = "OnSymbol" THEN
        IF chr = "(" \/ chr = ")" THEN
            [st EXCEPT !.ret = st.ret \o <<st.buffer, <<chr>>>>, !.buffer = <<>>]
        ELSE IF chr = " " \/ chr = "\n" \/ chr = "\t" THEN
            [st EXCEPT !.ret = Append(st.ret, st.buffer), !.buffer = <<>>]
        ELSE IF chr = "\"" THEN
            [st EXCEPT !.parser = "OnString", !.on_special = FALSE]
        ELSE IF ~is_whitespace(chr) THEN
            [st EXCEPT !.buffer = Append(st.buffer, chr)]
        ELSE st
    ELSE IF st.on_special THEN
        IF chr = "\"" \/ chr = "\\" THEN
            [st EXCEPT !.buffer = Append(st.buffer, chr), !.on_special = FALSE]
        ELSE IF chr = "n" THEN
            [st EXCEPT !.buffer = Append(st.buffer, "\n"), !.on_special = FALSE]
        ELSE
            [st EXCEPT !.failed = TRUE,
                       !.err = <<"no special formatting for ", Apostrophe, "\\",
                                 chr, Apostrophe>>]
    ELSE
        IF chr = "\"" THEN
            [st EXCEPT !.ret = Append(st.ret, st.buffer), !.buffer = <<>>,
                       !.parser = "OnSymbol"]
        ELSE IF chr = "\\" THEN
            [st EXCEPT !.on_special = TRUE]
        ELSE
            [st EXCEPT !.buffer = Append(st.buffer, chr)]

\* The loop: the ? on an unsupported escape leaves it at once.
RECURSIVE TokLoop(_, _)
TokLoop(st, cs) ==
    IF st.failed \/ cs = <<>> THEN st
    ELSE TokLoop(TokStep(st, Head(cs)), Tail(cs))

\* ret.into_iter().filter(|x| !x.is_empty()).collect()
NonEmpty(ret) == SelectSeq(ret, LAMBDA x : x # <<>>)

tokens(cs) ==
    LET st == TokLoop(TokInit, cs)
    IN IF st.failed THEN Err(st.err) ELSE Ok(NonEmpty(st.ret))

\* ---------------------------------------------------------------- parser
RECURSIVE DecVal(_)
DecVal(ds) ==
    IF ds = <<>> THEN 0
    ELSE 10 * DecVal(SubSeq(ds, 1, Len(ds) - 1)) + DigitVal(ds[Len(ds)])

\* ASCII lower case of the letters that spell inf, infinity and nan.
Lower(c) ==
    IF c = "I" THEN "i" ELSE IF c = "N" THEN "n" ELSE IF c = "F" THEN "f"
    ELSE IF c = "T" THEN "t" ELSE IF c = "Y" THEN "y" ELSE IF c = "A" THEN "a"
    ELSE c

\* str::parse::<f64> on the texts drawn here: an optional sign, then one or
\* more decimal digits, or inf, infinity or nan in either case.  The other
\* forms f64 accepts (a fraction, an exponent) need the characters . e E,
\* which no text of the model holds.
ParseF64(token) ==
    LET signed == token # <<>> /\ Head(token) \in {"+", "-"}
        neg == signed /\ Head(token) = "-"
        body == IF signed THEN Tail(token) ELSE token
        low == [i \in 1..Len(body) |-> Lower(body[i])]
    IN IF body # <<>> /\ \A i \in 1..Len(body) : IsDigit(body[i])
       THEN Ok(Fin(IF neg THEN -DecVal(body) ELSE DecVal(body)))
       ELSE IF low = <<"i", "n", "f">>
               \/ low = <<"i", "n", "f", "i", "n", "i", "t", "y">>
       THEN Ok(IF neg THEN NegInf ELSE PosInf)
       ELSE IF low = <<"n", "a", "n">> THEN Ok(NaN)
       ELSE Err(<<"invalid float literal">>)

parse_atom(token) ==
    LET f == ParseF64(token)
    IN IF f.ok THEN Number(f.v) ELSE Symbol(token)

RECURSIVE parse(_)
RECURSIVE read_seq_loop(_, _)

\* read_seq whose closing parenthesis stays in the rest.
read_seq_loop_keeps_close(res, xs) ==
    IF xs = <<>> THEN Err(<<"could not find closing ", Backtick, ")", Backtick>>)
    ELSE IF Head(xs) = <<")">> THEN Ok([exp |-> List(res), rest |-> xs])
    ELSE LET r == parse(xs)
         IN IF ~r.ok THEN r
            ELSE read_seq_loop(Append(res, r.v.exp), r.v.rest)

\* The loop of read_seq with its locals res and xs.
read_seq_loop(res, xs) ==
    IF xs = <<>> THEN Err(<<"could not find closing ", Backtick, ")", Backtick>>)
    ELSE IF Head(xs) = <<")">> THEN Ok([exp |-> List(res), rest |-> Tail(xs)])
    ELSE LET r == parse(xs)
         IN IF ~r.ok THEN r
            ELSE read_seq_loop(Append(res, r.v.exp), r.v.rest)

read_seq(ts) == read_seq_loop(<<>>, ts)

\* parse that takes a leading closing parenthesis for an atom.
parse_close_as_atom(ts) ==
    IF ts = <<>> THEN Err(<<"could not get token">>)
    ELSE LET token == Head(ts)
             rest == Tail(ts)
         IN IF token = <<"(">> THEN read_seq(rest)
            ELSE Ok([exp |-> parse_atom(token), rest |-> rest])

parse(ts) ==
    IF ts = <<>> THEN Err(<<"could not get token">>)
    ELSE LET token == Head(ts)
             rest == Tail(ts)
         IN IF token = <<"(">> THEN read_seq(rest)
            ELSE IF token = <<")">> THEN Err(<<"unexpected ", Backtick, ")", Backtick>>)
            ELSE Ok([exp |-> parse_atom(token), rest |-> rest])

\* ------------------------------------------------------------- evaluator
\* An evaluation returns its Result and the lines it printed on the way.
EvOk(v, o) == [ok |-> TRUE, v |-> v, err |-> <<>>, out |-> o]
EvErr(msg, o) == [ok |-> FALSE, v |-> <<>>, err |-> msg, out |-> o]

\* The keys of builtin_funcs().
builtin_funcs ==
    {<<"+">>, <<"-">>, <<"*">>, <<"/">>, <<"p", "r", "i", "n", "t">>,
     <<Apostrophe>>, <<",">>}

unpack(cont) ==
    IF cont = <<>> THEN Err(<<"could not get token">>)
    ELSE Ok([car |-> Head(cont), cdr |-> Tail(cont)])

\* collect() into a Result: the first expression that is no Number ends it.
RECURSIVE get_floats(_)
get_floats(cont) ==
    IF cont = <<>> THEN Ok(<<>>)
    ELSE LET h == get_number(Head(cont))
         IN IF ~h.ok THEN h
            ELSE LET t == get_floats(Tail(cont))
                 IN IF ~t.ok THEN t ELSE Ok(<<h.v>> \o t.v)

RECURSIVE FoldAdd(_, _)
FoldAdd(acc, fs) ==
    IF fs = <<>> THEN acc ELSE FoldAdd(F64Add(acc, Head(fs)), Tail(fs))

RECURSIVE FoldSub(_, _)
FoldSub(acc, fs) ==
    IF fs = <<>> THEN acc ELSE FoldSub(F64Sub(acc, Head(fs)), Tail(fs))

RECURSIVE value(_)
RECURSIVE eval_all_from(_, _, _)

\* eval_all that evaluates every element and then reports the first failure.
eval_all_from_keeps_going(r, vals, o) ==
    IF r = <<>> THEN EvOk(vals, o)
    ELSE LET a == value(Head(r))
             rest == eval_all_from(Tail(r), Append(vals, a.v), o \o a.out)
         IN IF ~a.ok THEN EvErr(a.err, rest.out) ELSE rest

\* r.iter().map(|a| env.value(a)).collect(): left to right, and the first
\* failure ends the iteration, so no later element is evaluated.
eval_all_from(r, vals, o) ==
    IF r = <<>> THEN EvOk(vals, o)
    ELSE LET a == value(Head(r))
         IN IF ~a.ok THEN EvErr(a.err, o \o a.out)
            ELSE eval_all_from(Tail(r), Append(vals, a.v), o \o a.out)

eval_all(r) == eval_all_from(r, <<>>, <<>>)

\* The body shared by lisp_add, lisp_mul and lisp_div.
NumericAdd(cont) ==
    LET ev == eval_all(cont)
    IN IF ~ev.ok THEN EvErr(ev.err, ev.out)
       ELSE LET u == unpack(ev.v)
            IN IF ~u.ok THEN EvErr(u.err, ev.out)
               ELSE LET car == get_number(u.v.car)
                    IN IF ~car.ok THEN EvErr(car.err, ev.out)
                       ELSE LET fs == get_floats(u.v.cdr)
                            IN IF ~fs.ok THEN EvErr(fs.err, ev.out)
                               ELSE EvOk(Number(FoldAdd(car.v, fs.v)), ev.out)

lisp_add(cont) == NumericAdd(cont)

lisp_sub(cont) ==
    LET ev == eval_all(cont)
    IN IF ~ev.ok THEN EvErr(ev.err, ev.out)
       ELSE LET u == unpack(ev.v)
            IN IF ~u.ok THEN EvErr(u.err, ev.out)
               ELSE LET car == get_number(u.v.car)
                    IN IF ~car.ok THEN EvErr(car.err, ev.out)
                       ELSE LET fs == get_floats(u.v.cdr)
                            IN IF ~fs.ok THEN EvErr(fs.err, ev.out)
                               ELSE EvOk(Number(FoldSub(car.v, fs.v)), ev.out)

F64Mul(a, b) ==
    IF a.k = "nan" \/ b.k = "nan" THEN NaN
    ELSE IF a.k = "fin" /\ b.k = "fin" THEN Fin(a.n * b.n)
    ELSE IF a.n = 0 \/ b.n = 0 THEN NaN
    ELSE IF (a.n < 0) = (b.n < 0) THEN PosInf ELSE NegInf

RECURSIVE FoldMul(_, _)
FoldMul(acc, fs) ==
    IF fs = <<>> THEN acc ELSE FoldMul(F64Mul(acc, Head(fs)), Tail(fs))

\* lisp_mul folding by multiplication.
lisp_mul_product(cont) ==
    LET ev == eval_all(cont)
    IN IF ~ev.ok THEN EvErr(ev.err, ev.out)
       ELSE LET u == unpack(ev.v)
            IN IF ~u.ok THEN EvErr(u.err, ev.out)
               ELSE LET car == get_number(u.v.car)
                    IN IF ~car.ok THEN EvErr(car.err, ev.out)
                       ELSE LET fs == get_floats(u.v.cdr)
                            IN IF ~fs.ok THEN EvErr(fs.err, ev.out)
                               ELSE EvOk(Number(FoldMul(car.v, fs.v)), ev.out)

lisp_mul(cont) == NumericAdd(cont)

lisp_div(cont) == NumericAdd(cont)

PrintAll(items) == [i \in 1..Len(items) |-> Display(items[i])]

lisp_debug(cont) == EvOk(Number(Fin(0)), PrintAll(cont))

lisp_print(cont) ==
    LET ev == eval_all(cont)
    IN IF ~ev.ok THEN EvErr(ev.err, ev.out)
       ELSE EvOk(Number(Fin(0)), ev.out \o PrintAll(ev.v))

\* lisp_also returning the first value instead of the last.
lisp_also_first(cont) ==
    LET ev == eval_all(cont)
    IN IF ~ev.ok THEN EvErr(ev.err, ev.out)
       ELSE IF ev.v = <<>> THEN EvErr(<<"">>, ev.out)
       ELSE EvOk(ev.v[1], ev.out)

lisp_also(cont) ==
    LET ev == eval_all(cont)
    IN IF ~ev.ok THEN EvErr(ev.err, ev.out)
       ELSE IF ev.v = <<>> THEN EvErr(<<"">>, ev.out)
       ELSE EvOk(ev.v[Len(ev.v)], ev.out)

\* exec that evaluates the arguments before it calls the handler.
exec_eager(car, cdr) ==
    LET ev == eval_all(cdr)
    IN IF ~ev.ok THEN EvErr(ev.err, ev.out)
       ELSE LET h == IF car = <<"+">> THEN lisp_add(ev.v)
                     ELSE IF car = <<"-">> THEN lisp_sub(ev.v)
                     ELSE IF car = <<"*">> THEN lisp_mul(ev.v)
                     ELSE IF car = <<"/">> THEN lisp_div(ev.v)
                     ELSE IF car = <<"p", "r", "i", "n", "t">> THEN lisp_print(ev.v)
                     ELSE IF car = <<Apostrophe>> THEN lisp_debug(ev.v)
                     ELSE lisp_also(ev.v)
            IN [h EXCEPT !.out = ev.out \o h.out]

\* LispInfo::exec: look the handler up and call it on the raw arguments.
exec(car, cdr) ==
    IF car \notin builtin_funcs THEN EvErr(<<"can", Apostrophe, "t find function ">> \o car, <<>>)
    ELSE IF car = <<"+">> THEN lisp_add(cdr)
    ELSE IF car = <<"-">> THEN lisp_sub(cdr)
    ELSE IF car = <<"*">> THEN lisp_mul(cdr)
    ELSE IF car = <<"/">> THEN lisp_div(cdr)
    ELSE IF car = <<"p", "r", "i", "n", "t">> THEN lisp_print(cdr)
    ELSE IF car = <<Apostrophe>> THEN lisp_debug(cdr)
    ELSE lisp_also(cdr)

\* LispInfo::value
value(vl) ==
    IF vl.tag = "List" THEN
        IF vl.l = <<>> THEN EvErr(<<"could not get token">>, <<>>)
        ELSE LET car == Head(vl.l)
                 cdr == Tail(vl.l)
                 car_str == get_symbol(car)
             IN IF ~car_str.ok THEN EvErr(car_str.err, <<>>)
                ELSE IF car_str.v \in builtin_funcs THEN exec(car_str.v, cdr)
                ELSE IF cdr # <<>> THEN
                    EvErr(<<"symbol ">> \o Display(car)
                          \o <<" not defined as funtion so it takes arguments">>, <<>>)
                ELSE EvOk(car, <<>>)
    ELSE EvOk(vl, <<>>)

\* LispInfo::run
run(r) == value(r)

\* ------------------------------------------------------------------ main
\* {:?} of a slice of String.
DebugVec(ss) ==
    <<"[">> \o Join([i \in 1..Len(ss) |-> DebugString(ss[i])], <<", ">>) \o <<"]">>

I32Max == 2147483647
I32Min == -I32Max - 1

\* f64::to_int_unchecked::<i32> followed by process::exit.  The value must
\* be finite and in range of i32; otherwise the call is undefined behaviour,
\* whose outcomes are an exit with some status or an abnormal end.
to_int_unchecked(a) ==
    IF a.k = "fin" /\ I32Min <= a.n /\ a.n <= I32Max
    THEN {[pc |-> "exited", code |-> a.n]}
    ELSE {[pc |-> "exited", code |-> c] : c \in {I32Min, 0, I32Max}}
         \cup {[pc |-> "aborted", code |-> 0]}

\* A variable main has not bound yet.
Unset == Err(<<>>)
NoExp == [tag |-> "None", s |-> <<>>, n |-> Fin(0), l |-> <<>>]

\* let content = tokens(content).unwrap(); content is the text already read
\* from example.lsp.
Lex ==
    /\ pc = "tokens"
    /\ toks' = tokens(content)
    /\ pc' = IF toks'.ok THEN "parse" ELSE "aborted"
    /\ UNCHANGED <<content, parsed, root, result, out, status, leaf>>

\* Parse without the check that no token is left.
ParseIgnoresRest ==
    /\ pc = "parse"
    /\ parsed' = parse(toks.v)
    /\ IF ~parsed'.ok
       THEN pc' = "aborted" /\ UNCHANGED <<root, out>>
       ELSE pc' = "run" /\ root' = parsed'.v.exp /\ UNCHANGED out
    /\ UNCHANGED <<content, toks, result, status, leaf>>

\* let (parsed, missing) = parse(&content)...unwrap(); and the check that
\* no token is left, which prints the rest and panics.
Parse ==
    /\ pc = "parse"
    /\ parsed' = parse(toks.v)
    /\ IF ~parsed'.ok
       THEN pc' = "aborted" /\ UNCHANGED <<root, out>>
       ELSE IF parsed'.v.rest # <<>>
       THEN pc' = "aborted" /\ out' = Append(out, DebugVec(parsed'.v.rest))
            /\ UNCHANGED root
       ELSE pc' = "run" /\ root' = parsed'.v.exp /\ UNCHANGED out
    /\ UNCHANGED <<content, toks, result, status, leaf>>

\* let code = lisp.run();
Run ==
    /\ pc = "run"
    /\ LET r == run(root)
       IN /\ result' = [ok |-> r.ok, v |-> r.v, err |-> r.err]
          /\ out' = out \o r.out
    /\ pc' = "exit"
    /\ UNCHANGED <<content, toks, parsed, root, status, leaf>>

\* The two expect calls, the conversion and std::process::exit(code).
Exit ==
    /\ pc = "exit"
    /\ IF ~result.ok THEN pc' = "aborted" /\ UNCHANGED status
       ELSE LET code == get_number(result.v)
            IN IF ~code.ok THEN pc' = "aborted" /\ UNCHANGED status
               ELSE \E o \in to_int_unchecked(code.v) :
                        pc' = o.pc /\ status' = o.code
    /\ UNCHANGED <<content, toks, parsed, root, result, out, leaf>>

\* Rendering a leaf for the round trip through tokens and parse.
Render ==
    /\ pc = "render"
    /\ content' = Display(leaf)
    /\ pc' = "tokens"
    /\ UNCHANGED <<toks, parsed, root, result, out, status, leaf>>

\* ---------------------------------------------------------------- inputs
Strings(S, n) == UNION {[1..k -> S] : k \in 0..n}

\* The characters source texts are drawn from.
SrcChars == {"(", ")", " ", "\"", "\\", "n", "1", "+", "i", "f"}

\* The tokens token sequences are drawn from.
TokAlphabet == {<<"(">>, <<")">>, <<"n">>, <<"1">>, <<"+", "1">>}

\* The characters of the tokens leaves are read from.
AtomChars == {"1", "+", "n", " ", "(", "\"", "\\"}

LeafTokens == Strings(AtomChars, MaxAtom) \ {<<>>, <<"(">>, <<")">>}

\* The expressions roots are built from.
Nums == {Number(Fin(1)), Number(Fin(2))}
Leaves == Nums \cup {Symbol(<<"f", "o", "o">>), Number(PosInf)}
InnerHeads == {Symbol(<<"p", "r", "i", "n", "t">>), Symbol(<<"+">>),
               Symbol(<<"f", "o", "o">>)}
Inner ==
    {List(<<>>)} \cup {List(<<h>> \o a) : h \in InnerHeads, a \in Strings(Nums, 1)}
Heads ==
    {Symbol(f) : f \in builtin_funcs}
    \cup {Symbol(<<"f", "o", "o">>), Number(Fin(1)), List(<<Symbol(<<"f", "o", "o">>)>>)}
Roots ==
    Leaves \cup {List(<<>>)}
    \cup {List(<<h>> \o a) : h \in Heads, a \in Strings(Leaves \cup Inner, MaxArgs)}

InitCommon ==
    /\ parsed = Unset
    /\ result = Unset
    /\ out = <<>>
    /\ status = 0

\* main on a source text.
Init ==
    /\ pc = "tokens"
    /\ content \in Strings(SrcChars, MaxSrc)
    /\ toks = Unset
    /\ root = NoExp
    /\ leaf = NoExp
    /\ InitCommon

Next == Lex \/ Parse \/ Run \/ Exit

Spec == Init /\ [][Next]_vars

\* parse on a token sequence.
InitParse ==
    /\ pc = "parse"
    /\ content = <<>>
    /\ toks \in {Ok(ts) : ts \in Strings(TokAlphabet, MaxToks)}
    /\ root = NoExp
    /\ leaf = NoExp
    /\ InitCommon

NextParse == Parse

SpecParse == InitParse /\ [][NextParse]_vars

\* LispInfo::run on a root expression.
InitEval ==
    /\ pc = "run"
    /\ content = <<>>
    /\ toks = Unset
    /\ root \in Roots
    /\ leaf = NoExp
    /\ InitCommon

NextEval == Run \/ Exit

SpecEval == InitEval /\ [][NextEval]_vars

\* Display, tokens and parse on a leaf the parser produces.
InitRound ==
    /\ pc = "render"
    /\ content = <<>>
    /\ toks = Unset
    /\ root = NoExp
    /\ leaf \in {parse_atom(t) : t \in LeafTokens}
    /\ InitCommon

NextRound == Render \/ Lex \/ Parse

SpecRound == InitRound /\ [][NextRound]_vars

\* ---------------------------------------------------------------- claims
\* The concatenation of a sequence of sequences.
RECURSIVE Concat(_)
Concat(ss) == IF ss = <<>> THEN <<>> ELSE Head(ss) \o Concat(Tail(ss))

Terminated == pc \in {"exited", "aborted"}

\* Every stage of main succeeds on the source text and the root evaluates
\* to a Number.
PipelineOk ==
    LET t == tokens(content)
    IN /\ t.ok
       /\ LET p == parse(t.v)
          IN /\ p.ok
             /\ p.v.rest = <<>>
             /\ LET r == run(p.v.exp)
                IN r.ok /\ r.v.tag = "Number"

\* The position of main: each step moves it forward, and the last two are
\* the ends of the process.
Stage(p) ==
    IF p = "tokens" THEN 1 ELSE IF p = "parse" THEN 2 ELSE IF p = "run" THEN 3
    ELSE IF p = "exit" THEN 4 ELSE 5

\* main can take its next step: it is at one of its four calls, and the
\* conversion of a Number result has an outcome.
CanStep ==
    /\ pc \in {"tokens", "parse", "run", "exit"}
    /\ (pc = "exit" /\ result.ok /\ result.v.tag = "Number")
           => to_int_unchecked(result.v.n) # {}

\* C1: every run of main on a source text terminates (a run that has not
\* ended can take a step, and every step moves main forward), it exits with
\* a status only when lexing succeeds, parse succeeds with an empty
\* remainder and the root evaluates to a Number, and in every other case it
\* ends by aborting.
C1_PipelineOutcome ==
    /\ [](Terminated \/ CanStep)
    /\ [][Stage(pc') > Stage(pc)]_vars
    /\ [](pc = "exited" => PipelineOk)
    /\ []((Terminated /\ ~PipelineOk) => pc = "aborted")

\* A run that exits with the value of its root, and so passed every stage.
C1_Witness == pc = "exited" /\ status = 1 /\ PipelineOk /\ parsed.v.rest = <<>>

\* The tokens of a source text without string literals, as the maximal runs
\* of characters between parentheses and space, newline or tab.
RECURSIVE BareSplit(_, _, _)
BareSplit(cs, cur, acc) ==
    LET flushed == IF cur = <<>> THEN acc ELSE Append(acc, cur)
    IN IF cs = <<>> THEN flushed
       ELSE IF Head(cs) \in {"(", ")"}
       THEN BareSplit(Tail(cs), <<>>, Append(flushed, <<Head(cs)>>))
       ELSE IF Head(cs) \in {" ", "\n", "\t"}
       THEN BareSplit(Tail(cs), <<>>, flushed)
       ELSE BareSplit(Tail(cs), Append(cur, Head(cs)), acc)

HasQuote(cs) == \E i \in 1..Len(cs) : cs[i] = "\""

\* C2: on a source text without a double quote, tokens succeeds and returns
\* the parentheses and the maximal runs of other non-blank characters, in
\* order, none lost, split or merged.
C2_TokensKeepEveryRun ==
    (pc # "tokens" /\ ~HasQuote(content))
        => (toks.ok /\ toks.v = BareSplit(content, <<>>, <<>>))

\* The bodies, escapes resolved, of the closed string literals of a source
\* text, in order.  st is "out", "in" or "esc".
RECURSIVE Literals(_, _, _, _)
Literals(cs, st, body, acc) ==
    IF cs = <<>> THEN acc
    ELSE LET c == Head(cs)
         IN IF st = "out"
            THEN Literals(Tail(cs), IF c = "\"" THEN "in" ELSE "out", <<>>, acc)
            ELSE IF st = "esc"
            THEN Literals(Tail(cs), "in",
                          Append(body, IF c = "n" THEN "\n" ELSE c), acc)
            ELSE IF c = "\"" THEN Literals(Tail(cs), "out", <<>>, Append(acc, body))
            ELSE IF c = "\\" THEN Literals(Tail(cs), "esc", body, acc)
            ELSE Literals(Tail(cs), "in", Append(body, c), acc)

\* a occurs in b as a subsequence: its elements, in order, among those of b.
RECURSIVE IsSubseq(_, _)
IsSubseq(a, b) ==
    IF a = <<>> THEN TRUE
    ELSE IF b = <<>> THEN FALSE
    ELSE IF Head(a) = Head(b) THEN IsSubseq(Tail(a), Tail(b))
    ELSE IsSubseq(a, Tail(b))

\* C8: every string literal of the source yields one token of its own, the
\* body of the literal with its escapes resolved, neither merged with
\* adjacent bare text nor dropped.
C8_LiteralIsOwnToken ==
    (pc # "tokens" /\ toks.ok)
        => IsSubseq(Literals(content, "out", <<>>, <<>>), toks.v)

\* C9: a Number or Symbol the parser produces is recovered by rendering it
\* with Display, tokenizing the text and parsing the tokens.
C9_LeafRoundTrip ==
    (pc \notin {"render", "tokens", "parse"})
        => (toks.ok /\ parsed.ok /\ parsed.v.exp = leaf)

\* The length of the first expression of a token sequence, by counting
\* parentheses: 1 for an atom, up to the matching close for a list, and 0
\* when there is none.
RECURSIVE CloseAt(_, _, _)
CloseAt(ts, i, depth) ==
    IF i > Len(ts) THEN 0
    ELSE IF ts[i] = <<"(">> THEN CloseAt(ts, i + 1, depth + 1)
    ELSE IF ts[i] = <<")">>
    THEN (IF depth = 1 THEN i ELSE CloseAt(ts, i + 1, depth - 1))
    ELSE CloseAt(ts, i + 1, depth)

FirstExpLen(ts) ==
    IF ts = <<>> \/ ts[1] = <<")">> THEN 0
    ELSE IF ts[1] = <<"(">> THEN CloseAt(ts, 2, 1)
    ELSE 1

\* An expression written back as a sequence: a list is its elements between
\* an opening and a closing mark, an atom is itself.
OpenMark == [tag |-> "Open", s |-> <<>>, n |-> Fin(0), l |-> <<>>]
CloseMark == [tag |-> "Close", s |-> <<>>, n |-> Fin(0), l |-> <<>>]

RECURSIVE Flat(_)
Flat(e) ==
    IF e.tag = "List"
    THEN <<OpenMark>> \o Concat([i \in 1..Len(e.l) |-> Flat(e.l[i])]) \o <<CloseMark>>
    ELSE <<e>>

MarkOf(token) ==
    IF token = <<"(">> THEN OpenMark
    ELSE IF token = <<")">> THEN CloseMark
    ELSE parse_atom(token)

\* C3: when parse succeeds with (exp, rest), rest is a proper suffix of the
\* tokens, the consumed prefix is exactly the first expression (one atom,
\* or a list up to its matching parenthesis) and exp is that expression,
\* its elements in token order.
C3_ParseConsumesOneExp ==
    (pc # "parse" /\ parsed.ok) =>
        LET ts == toks.v
            k == Len(ts) - Len(parsed.v.rest)
        IN /\ k >= 1
           /\ parsed.v.rest = SubSeq(ts, k + 1, Len(ts))
           /\ k = FirstExpLen(ts)
           /\ Flat(parsed.v.exp) = [i \in 1..k |-> MarkOf(ts[i])]

\* A nested list parsed with tokens left behind it.
C3_Witness ==
    /\ pc # "parse"
    /\ parsed.ok
    /\ parsed.v.exp.tag = "List"
    /\ \E i \in 1..Len(parsed.v.exp.l) : parsed.v.exp.l[i].tag = "List"
    /\ parsed.v.rest # <<>>

\* C4: parse fails in exactly three cases, each with its message: no token,
\* a leading closing parenthesis, and a list that the tokens end before
\* closing; in every other case it succeeds.
C4_ParseFailures ==
    (pc # "parse") =>
        LET ts == toks.v
        IN IF ts = <<>>
           THEN ~parsed.ok /\ parsed.err = <<"could not get token">>
           ELSE IF ts[1] = <<")">>
           THEN ~parsed.ok /\ parsed.err = <<"unexpected ", Backtick, ")", Backtick>>
           ELSE IF ts[1] = <<"(">> /\ FirstExpLen(ts) = 0
           THEN /\ ~parsed.ok
                /\ parsed.err = <<"could not find closing ", Backtick, ")", Backtick>>
           ELSE parsed.ok

\* A list nested in an unclosed list: the tokens end with one list closed.
C4_Witness ==
    /\ pc = "aborted"
    /\ ~parsed.ok
    /\ Len(toks.v) >= 3
    /\ toks.v[Len(toks.v)] = <<")">>
    /\ parsed.err = <<"could not find closing ", Backtick, ")", Backtick>>

\* The root is a call of one of the named builtins.
RootIsCall(names) ==
    /\ root.tag = "List"
    /\ root.l # <<>>
    /\ Head(root.l).tag = "Symbol"
    /\ Head(root.l).s \in names

Args == Tail(root.l)

\* Each argument of the root evaluated on its own.
ArgVals == [i \in 1..Len(Args) |-> value(Args[i])]

\* The first argument whose evaluation fails, 0 when none does.
FirstFail ==
    IF \A i \in 1..Len(Args) : ArgVals[i].ok THEN 0
    ELSE CHOOSE i \in 1..Len(Args) :
             ~ArgVals[i].ok /\ \A j \in 1..(i - 1) : ArgVals[j].ok

\* The lines printed by the first k arguments, argument by argument.
OutUpTo(k) == Concat([i \in 1..k |-> ArgVals[i].out])

ResultOf(r) == [ok |-> r.ok, v |-> r.v, err |-> r.err]

\* The handler registered under a name, applied to raw arguments.
Handler(f, cdr) ==
    CASE f = <<"+">> -> lisp_add(cdr)
      [] f = <<"-">> -> lisp_sub(cdr)
      [] f = <<"*">> -> lisp_mul(cdr)
      [] f = <<"/">> -> lisp_div(cdr)
      [] f = <<"p", "r", "i", "n", "t">> -> lisp_print(cdr)
      [] f = <<Apostrophe>> -> lisp_debug(cdr)
      [] f = <<",">> -> lisp_also(cdr)

Registered ==
    {<<"+">>, <<"-">>, <<"*">>, <<"/">>, <<"p", "r", "i", "n", "t">>,
     <<Apostrophe>>, <<",">>}

\* C5: value dispatches by one rule: an atom evaluates to itself; an empty
\* list fails; a list whose head is no Symbol fails with a type mismatch
\* naming the head variant and evaluates no argument; a registered head
\* returns the result of its handler on the raw arguments; an unregistered
\* Symbol head fails with arguments and is returned unchanged without.
C5_Dispatch ==
    (pc # "run") =>
        IF root.tag # "List" THEN result = Ok(root) /\ out = <<>>
        ELSE IF root.l = <<>> THEN ~result.ok /\ out = <<>>
        ELSE LET car == Head(root.l)
                 cdr == Tail(root.l)
             IN IF car.tag # "Symbol"
                THEN /\ ~result.ok
                     /\ result.err[Len(result.err)] = car.tag
                     /\ out = <<>>
                ELSE IF car.s \in Registered
                THEN /\ result = ResultOf(Handler(car.s, cdr))
                     /\ out = Handler(car.s, cdr).out
                ELSE IF cdr # <<>> THEN ~result.ok /\ out = <<>>
                ELSE result = Ok(car) /\ out = <<>>

\* A list headed by a Number whose argument would print if evaluated:
\* the type mismatch, and nothing printed.
C5_Witness ==
    /\ pc # "run"
    /\ root.tag = "List"
    /\ Len(root.l) = 2
    /\ root.l[1].tag = "Number"
    /\ value(root.l[2]).out # <<>>
    /\ ~result.ok
    /\ out = <<>>

RECURSIVE SumTo(_)
SumTo(k) == IF k = 0 THEN Fin(0) ELSE F64Add(SumTo(k - 1), ArgVals[k].v.n)

AllNumbers == \A i \in 1..Len(Args) : ArgVals[i].ok /\ ArgVals[i].v.tag = "Number"

\* C6: the builtins + * / agree on every argument list: with at least one
\* argument, all evaluating to Numbers, the result is the Number of their
\* sum; with none, or with an argument that is no Number, all three fail.
C6_AddMulDivSum ==
    (pc # "run" /\ RootIsCall({<<"+">>, <<"*">>, <<"/">>})) =>
        /\ (Args # <<>> /\ AllNumbers) => result = Ok(Number(SumTo(Len(Args))))
        /\ (Args = <<>> \/ ~AllNumbers) => ~result.ok
        /\ \A f \in {<<"+">>, <<"*">>, <<"/">>} :
               LET r == value(List(<<Symbol(f)>> \o Args))
               IN result = ResultOf(r) /\ out = r.out

\* The product builtin on 1 and an evaluated list: the sum, 3.
C6_Witness ==
    /\ pc # "run"
    /\ RootIsCall({<<"*">>})
    /\ Len(Args) = 2
    /\ Args[1] = Number(Fin(1))
    /\ Args[2].tag = "List"
    /\ result = Ok(Number(Fin(3)))

\* C7: the sequence builtin evaluates its arguments left to right, so the
\* lines of argument i precede those of argument i+1; when all succeed it
\* returns the value of the last; without arguments it fails.
C7_AlsoInOrder ==
    (pc # "run" /\ RootIsCall({<<",">>})) =>
        /\ (Args = <<>>) => ~result.ok
        /\ (Args # <<>> /\ FirstFail = 0) => result = Ok(ArgVals[Len(Args)].v)
        /\ out = OutUpTo(IF FirstFail = 0 THEN Len(Args) ELSE FirstFail)

\* (, (print 1) (print 2)): the line of the first argument, then that of
\* the second, and the value of the second.
C7_Witness ==
    /\ pc # "run"
    /\ RootIsCall({<<",">>})
    /\ Len(Args) = 2
    /\ ArgVals[1].out = <<<<"1">>>>
    /\ ArgVals[2].out = <<<<"2">>>>
    /\ result = Ok(Number(Fin(0)))
    /\ out = <<<<"1">>, <<"2">>>>

\* C10: when an argument of an evaluating builtin fails, no later argument
\* is evaluated, the builtin prints no line of its own, and the failure is
\* that of the first failing argument.
C10_FailFast ==
    (/\ pc # "run"
     /\ RootIsCall({<<"+">>, <<"-">>, <<"*">>, <<"/">>,
                    <<"p", "r", "i", "n", "t">>, <<",">>})
     /\ FirstFail # 0) =>
        /\ ~result.ok
        /\ result.err = ArgVals[FirstFail].err
        /\ out = OutUpTo(FirstFail)

\* print with a failing argument followed by one that would print: the
\* failure, and nothing printed.
C10_Witness ==
    /\ pc # "run"
    /\ RootIsCall({<<"p", "r", "i", "n", "t">>})
    /\ Len(Args) = 2
    /\ ~ArgVals[1].ok
    /\ ArgVals[2].ok /\ ArgVals[2].out # <<>>
    /\ ~result.ok
    /\ out = <<>>

====
